---- MODULE Spec2Model ----
(***************************************************************************)
(* cubits/accelerate_cuda_assert.h: the compile-time gate that turns       *)
(* assert() into an empty macro for device code below compute capability   *)
(* 2.0.                                                                    *)
(*                                                                         *)
(* A compilation unit is a sequence of preprocessor lines (includes of     *)
(* this header, includes of <assert.h>, #define/#undef of assert, uses of  *)
(* assert) processed under a fixed target; the expanded uses form the      *)
(* program, which one unit of work then executes line by line.             *)
(***************************************************************************)
EXTENDS Integers, Sequences, FiniteSets

\* ------------------------------------------------------------- bounds --
\* Uses of assert() per compilation unit.
MaxUses == 2
\* Inclusions of accelerate_cuda_assert.h per compilation unit.
MaxIncludes == 2

\* ---------------------------------------------------------- constants --
\* The literal of `__CUDA_ARCH__ < 200`.
Threshold == 200

\* __CUDA_ARCH__ values the toolchain may supply (1.1, 1.99, 2.0, 3.5).
Capabilities == {110, Threshold - 1, Threshold, 350}

\* The compilation units of a build.
AllUnits == {"a", "b"}

\* What the name assert is bound to in the preprocessor's macro table.
Defs == {"undefined", "native", "noop", "user"}

\* Condition expressions handed to assert(): a true one, a false one, and a
\* false one that writes a variable when evaluated, (x++, false).
Conds == {"true", "false", "effect"}

CondValue(c) == c = "true"
CondWrites(c) == c = "effect"

VARIABLES
    units,                      \* the units being compiled
    device,                     \* u -> __CUDA_ARCH__ is defined (device pass)
    capability,                 \* u -> the capability being compiled for
    CUDACC_RTC,                 \* u -> __CUDACC_RTC__ is defined
    ACCELERATE_CUDA_ASSERT_H,   \* u -> the include guard is defined
    assert,                     \* u -> the definition of assert in effect
    origin,                     \* u -> "prior" | "gate" | "later"
    decision,                   \* u -> "none" | "noop" | "intact"
    gateEvals,                  \* u -> evaluations of the #if of line 24
    includes,                   \* u -> inclusions of the header so far
    status,                     \* u -> compiling|failed|running|finished|aborted
    prog,                       \* u -> the expanded uses of assert, in order
    pc,                         \* u -> the line the unit of work is at
    x,                          \* u -> the variable the "effect" condition writes
    diag                        \* u -> line reported by a failed assertion, 0: none

vars == <<units, device, capability, CUDACC_RTC, ACCELERATE_CUDA_ASSERT_H,
          assert, origin, decision, gateEvals, includes, status, prog, pc, x,
          diag>>

target == <<units, device, capability, CUDACC_RTC>>
preproc == <<ACCELERATE_CUDA_ASSERT_H, assert, origin, decision, gateEvals,
             includes>>
runtime == <<pc, x, diag>>

\* ------------------------------------------------- the preprocessor --
\* defined(__CUDA_ARCH__)
CUDA_ARCH_defined(u) == device[u]

\* The value of __CUDA_ARCH__ inside #if: an identifier that is not a macro
\* evaluates to 0.
CUDA_ARCH(u) == IF device[u] THEN capability[u] ELSE 0

\* #ifndef __ACCELERATE_CUDA_ASSERT_H__ fails: the body is skipped.
GuardSkipsNever(u) == FALSE
GuardSkips(u) == ACCELERATE_CUDA_ASSERT_H[u]

\* #ifndef __CUDACC_RTC__ / #include <assert.h> / #include <cuda_runtime.h>:
\* <assert.h> (re)defines assert on every inclusion.
NativeIncludeAlways(u, d) == "native"
NativeInclude(u, d) == IF CUDACC_RTC[u] THEN d ELSE "native"

\* #if defined(__CUDA_ARCH__) && (__CUDA_ARCH__ < 200)
DisabledInclusive(u) == CUDA_ARCH_defined(u) /\ CUDA_ARCH(u) <= Threshold
DisabledNoDefined(u) == CUDA_ARCH(u) < Threshold
DisabledUnlessRtc(u) ==
    ~CUDACC_RTC[u] /\ CUDA_ARCH_defined(u) /\ CUDA_ARCH(u) < Threshold
Disabled(u) == CUDA_ARCH_defined(u) /\ CUDA_ARCH(u) < Threshold

\* #undef assert / #define assert(arg)
OverrideUndefOnly(d) == "undefined"
Override(d) == "noop"

\* The conditional block of lines 24-27 applied to the definition d.
Gate(u, d) == IF Disabled(u) THEN Override(d) ELSE d

\* The body of the header, lines 16-27, applied to the definition d.
HeaderBodyGateFirst(u, d) == NativeInclude(u, Gate(u, d))
HeaderBody(u, d) == Gate(u, NativeInclude(u, d))

\* Which branch the #if of line 24 takes.
GateDecision(u) == IF Disabled(u) THEN "noop" ELSE "intact"

\* A redefinition of assert outside the header: after the header has been
\* processed it replaces what the gate left.
Redefined(u) == IF origin[u] = "prior" THEN "prior" ELSE "later"

\* --------------------------------------------------- macro expansion --
\* assert(c) under <assert.h>: evaluate c, abort with a diagnostic if false.
ExpandNative(c) == <<[op |-> "check", cond |-> c]>>

\* assert(c) under `#define assert(arg)`: the empty token sequence.
ExpandNoopEvaluates(c) == <<[op |-> "eval", cond |-> c]>>
ExpandNoop(c) == << >>

\* assert(c) under an earlier user definition, #define assert(e) ((void)(e)).
ExpandUser(c) == <<[op |-> "eval", cond |-> c]>>

Expand(d, c) ==
    CASE d = "native" -> ExpandNative(c)
      [] d = "noop" -> ExpandNoop(c)
      [] OTHER -> ExpandUser(c)

Lines == [cond : Conds, sel : {"prior", "gate", "later"},
          code : {<< >>} \cup {<<[op |-> o, cond |-> c]>> :
                                  o \in {"check", "eval"}, c \in Conds}]

\* ------------------------------------------------------------- states --
TypeOK ==
    /\ units \subseteq AllUnits
    /\ device \in [units -> BOOLEAN]
    /\ capability \in [units -> Capabilities]
    /\ CUDACC_RTC \in [units -> BOOLEAN]
    /\ ACCELERATE_CUDA_ASSERT_H \in [units -> BOOLEAN]
    /\ assert \in [units -> Defs]
    /\ origin \in [units -> {"prior", "gate", "later"}]
    /\ decision \in [units -> {"none", "noop", "intact"}]
    /\ gateEvals \in [units -> 0..MaxIncludes]
    /\ includes \in [units -> 0..MaxIncludes]
    /\ status \in [units -> {"compiling", "failed", "running", "finished",
                             "aborted"}]
    /\ \A u \in units : /\ prog[u] \in Seq(Lines)
                        /\ Len(prog[u]) <= MaxUses
                        /\ pc[u] \in 0..(MaxUses + 1)
                        /\ x[u] \in 0..MaxUses
                        /\ diag[u] \in 0..MaxUses

\* A build of the units us: every target the toolchain can supply.  The
\* runtime compiler (the one that defines __CUDACC_RTC__) compiles device
\* code only, so it always defines __CUDA_ARCH__.
InitBuild(us) ==
    /\ units = us
    /\ device \in [us -> BOOLEAN]
    /\ capability \in [us -> Capabilities]
    /\ CUDACC_RTC \in [us -> BOOLEAN]
    /\ \A u \in us : CUDACC_RTC[u] => device[u]
    /\ ACCELERATE_CUDA_ASSERT_H = [u \in us |-> FALSE]
    /\ assert = [u \in us |-> "undefined"]
    /\ origin = [u \in us |-> "prior"]
    /\ decision = [u \in us |-> "none"]
    /\ gateEvals = [u \in us |-> 0]
    /\ includes = [u \in us |-> 0]
    /\ status = [u \in us |-> "compiling"]
    /\ prog = [u \in us |-> << >>]
    /\ pc = [u \in us |-> 0]
    /\ x = [u \in us |-> 0]
    /\ diag = [u \in us |-> 0]

Init == InitBuild({"a"})

InitPair == InitBuild(AllUnits)

\* ------------------------------------------------------------ actions --
\* #include "accelerate_cuda_assert.h"
IncludeHeader(u) ==
    /\ u \in units
    /\ status[u] = "compiling"
    /\ includes[u] < MaxIncludes
    /\ includes' = [includes EXCEPT ![u] = @ + 1]
    /\ IF GuardSkips(u)
         THEN UNCHANGED <<ACCELERATE_CUDA_ASSERT_H, assert, origin, decision,
                          gateEvals>>
         ELSE /\ ACCELERATE_CUDA_ASSERT_H' =
                     [ACCELERATE_CUDA_ASSERT_H EXCEPT ![u] = TRUE]
              /\ assert' = [assert EXCEPT ![u] = HeaderBody(u, @)]
              /\ decision' = [decision EXCEPT ![u] = GateDecision(u)]
              /\ gateEvals' = [gateEvals EXCEPT ![u] = @ + 1]
              /\ origin' = [origin EXCEPT ![u] = "gate"]
    /\ UNCHANGED <<target, status, prog, runtime>>

\* #include <assert.h> elsewhere in the unit.
IncludeAssertH(u) ==
    /\ u \in units
    /\ status[u] = "compiling"
    /\ assert' = [assert EXCEPT ![u] = "native"]
    /\ origin' = [origin EXCEPT ![u] = Redefined(u)]
    /\ UNCHANGED <<target, ACCELERATE_CUDA_ASSERT_H, decision, gateEvals,
                   includes, status, prog, runtime>>

\* #define assert(e) ((void)(e)) elsewhere in the unit.
DefineAssert(u) ==
    /\ u \in units
    /\ status[u] = "compiling"
    /\ assert' = [assert EXCEPT ![u] = "user"]
    /\ origin' = [origin EXCEPT ![u] = Redefined(u)]
    /\ UNCHANGED <<target, ACCELERATE_CUDA_ASSERT_H, decision, gateEvals,
                   includes, status, prog, runtime>>

\* #undef assert elsewhere in the unit.
UndefAssert(u) ==
    /\ u \in units
    /\ status[u] = "compiling"
    /\ assert' = [assert EXCEPT ![u] = "undefined"]
    /\ origin' = [origin EXCEPT ![u] = Redefined(u)]
    /\ UNCHANGED <<target, ACCELERATE_CUDA_ASSERT_H, decision, gateEvals,
                   includes, status, prog, runtime>>

\* A line `assert(c);`: expanded by the definition in effect; with no
\* definition the name is undeclared and the unit does not compile.
UseAssert(u, c) ==
    /\ u \in units
    /\ status[u] = "compiling"
    /\ Len(prog[u]) < MaxUses
    /\ IF assert[u] = "undefined"
         THEN /\ status' = [status EXCEPT ![u] = "failed"]
              /\ UNCHANGED prog
         ELSE /\ prog' = [prog EXCEPT ![u] =
                     Append(@, [cond |-> c, sel |-> origin[u],
                                code |-> Expand(assert[u], c)])]
              /\ UNCHANGED status
    /\ UNCHANGED <<target, preproc, runtime>>

\* End of the unit: the program is loaded and one unit of work starts.
Launch(u) ==
    /\ u \in units
    /\ status[u] = "compiling"
    /\ status' = [status EXCEPT ![u] = "running"]
    /\ pc' = [pc EXCEPT ![u] = 1]
    /\ UNCHANGED <<target, preproc, prog, x, diag>>

\* The unit of work executes its next line.
Step(u) ==
    /\ u \in units
    /\ status[u] = "running"
    /\ IF pc[u] > Len(prog[u])
         THEN /\ status' = [status EXCEPT ![u] = "finished"]
              /\ UNCHANGED runtime
         ELSE LET code == prog[u][pc[u]].code IN
              IF code = << >>
                THEN /\ pc' = [pc EXCEPT ![u] = @ + 1]
                     /\ UNCHANGED <<status, x, diag>>
                ELSE LET i == code[1] IN
                     /\ x' = [x EXCEPT ![u] =
                                 IF CondWrites(i.cond) THEN @ + 1 ELSE @]
                     /\ IF i.op = "check" /\ ~CondValue(i.cond)
                          THEN /\ status' = [status EXCEPT ![u] = "aborted"]
                               /\ diag' = [diag EXCEPT ![u] = pc[u]]
                               /\ UNCHANGED pc
                          ELSE /\ pc' = [pc EXCEPT ![u] = @ + 1]
                               /\ UNCHANGED <<status, diag>>
    /\ UNCHANGED <<target, preproc, prog>>

Next ==
    \/ \E u \in AllUnits : IncludeHeader(u)
    \/ \E u \in AllUnits : IncludeAssertH(u)
    \/ \E u \in AllUnits : DefineAssert(u)
    \/ \E u \in AllUnits : UndefAssert(u)
    \/ \E u \in AllUnits, c \in Conds : UseAssert(u, c)
    \/ \E u \in AllUnits : Launch(u)
    \/ \E u \in AllUnits : Step(u)

Spec == Init /\ [][Next]_vars

\* Two units of one build, preprocessed side by side and then launched;
\* neither uses assert, so each program is empty.
NextPair ==
    \/ \E u \in AllUnits : IncludeHeader(u)
    \/ \E u \in AllUnits : IncludeAssertH(u)
    \/ \E u \in AllUnits : DefineAssert(u)
    \/ \E u \in AllUnits : UndefAssert(u)
    \/ \E u \in AllUnits : Launch(u)
    \/ \E u \in AllUnits : Step(u)

SpecPair == InitPair /\ [][NextPair]_vars

\* ------------------------------------------------------- vocabulary --
\* A device-side pass below capability 2.0, and one at 2.0 or above.
LowDevice(u) == device[u] /\ capability[u] < Threshold
CapableDevice(u) == device[u] /\ capability[u] >= Threshold

\* The lines of u expanded while the header's selection was in effect.
GateLines(u) == {i \in 1..Len(prog[u]) : prog[u][i].sel = "gate"}

\* The lines the unit of work has executed so far.
Executed(u) ==
    IF status[u] = "aborted" THEN 1..pc[u] ELSE 1..(pc[u] - 1)

\* Line i of u is the native check of a condition that is false.
FalseCheck(u, i) ==
    /\ prog[u][i].code # << >>
    /\ prog[u][i].code[1].op = "check"
    /\ ~CondValue(prog[u][i].cond)

\* This step is an inclusion of the header by u.
HeaderStep(u) == includes'[u] = includes[u] + 1

\* ------------------------------------------------------------- claims --
\* C1: in a device-side pass below capability 2.0, once the header has
\* selected the definition, assert is the empty macro: every use expands to
\* no code whatever its condition, and executing such a line neither aborts
\* the unit of work nor reports a diagnostic.
C1_NoopBelow20 ==
    \A u \in units : LowDevice(u) =>
        /\ origin[u] = "gate" => assert[u] = "noop"
        /\ \A i \in GateLines(u) : prog[u][i].code = << >>
        /\ status[u] = "aborted" =>
              /\ diag[u] \notin GateLines(u)
              /\ pc[u] \notin GateLines(u)
        /\ GateLines(u) = 1..Len(prog[u]) =>
              /\ status[u] # "aborted"
              /\ diag[u] = 0

C1_Witness ==
    \E u \in units :
        /\ LowDevice(u)
        /\ status[u] = "finished"
        /\ Len(prog[u]) = 2
        /\ GateLines(u) = {1, 2}
        /\ prog[u][1].cond = "false"
        /\ prog[u][2].cond = "true"

\* C2: in a device-side pass at capability 2.0 or above the header leaves
\* the facility in place: a use under the header's selection always expands
\* to code (the native check when <assert.h> was included), a native check of
\* a false condition aborts the unit of work at that line and reports it, and
\* a check of a true condition is passed.
C2_IntactFrom20 ==
    \A u \in units : CapableDevice(u) =>
        /\ origin[u] = "gate" =>
              /\ assert[u] # "noop"
              /\ ~CUDACC_RTC[u] => assert[u] = "native"
        /\ \A i \in GateLines(u) :
              /\ prog[u][i].code # << >>
              /\ ~CUDACC_RTC[u] =>
                    prog[u][i].code =
                        <<[op |-> "check", cond |-> prog[u][i].cond]>>
              /\ FalseCheck(u, i) =>
                    /\ pc[u] <= i
                    /\ status[u] # "finished"
                    /\ (status[u] = "running" /\ pc[u] = i) => diag[u] = 0
                    /\ (status[u] = "aborted" /\ pc[u] = i) => diag[u] = i
        /\ (status[u] = "aborted" /\ GateLines(u) = 1..Len(prog[u])) =>
              /\ diag[u] = pc[u]
              /\ FalseCheck(u, pc[u])
              /\ \A i \in 1..(pc[u] - 1) : CondValue(prog[u][i].cond)

C2_Witness ==
    \E u \in units :
        /\ CapableDevice(u)
        /\ ~CUDACC_RTC[u]
        /\ GateLines(u) = {1, 2}
        /\ prog[u][1].cond = "true"
        /\ prog[u][2].cond = "false"
        /\ status[u] = "aborted"
        /\ diag[u] = 2

\* C3: outside a device-side pass, whatever the capability value, the header
\* leaves assert as the host's native assertion: the gate takes the intact
\* branch and every use under its selection is the native check.
C3_HostNative ==
    \A u \in units : ~device[u] =>
        /\ decision[u] # "noop"
        /\ origin[u] = "gate" => assert[u] = "native"
        /\ \A i \in GateLines(u) :
              prog[u][i].code = ExpandNative(prog[u][i].cond)
        /\ (status[u] = "finished" /\ GateLines(u) = 1..Len(prog[u])) =>
              \A i \in GateLines(u) : CondValue(prog[u][i].cond)

C3_Witness ==
    \E u \in units :
        /\ ~device[u]
        /\ capability[u] < Threshold
        /\ decision[u] = "intact"
        /\ GateLines(u) = {1}
        /\ prog[u][1].cond = "false"
        /\ status[u] = "aborted"
        /\ diag[u] = 1

\* C4: the threshold is exclusive below: a device-side pass at exactly 200
\* takes the intact branch, one at 199 the no-op branch, and in general the
\* no-op branch is taken exactly when the capability is strictly below 200.
C4_Boundary ==
    \A u \in units : (device[u] /\ includes[u] >= 1) =>
        /\ capability[u] = Threshold =>
              /\ decision[u] = "intact"
              /\ origin[u] = "gate" => assert[u] # "noop"
        /\ capability[u] = Threshold - 1 =>
              /\ decision[u] = "noop"
              /\ origin[u] = "gate" => assert[u] = "noop"
        /\ decision[u] = "noop" <=> capability[u] < Threshold

C4_Witness ==
    \E u \in units :
        /\ device[u]
        /\ capability[u] = Threshold
        /\ decision[u] = "intact"
        /\ origin[u] = "gate"
        /\ GateLines(u) # {}
        /\ status[u] = "aborted"

\* C5 as stated: once the header has been processed, no later include (of
\* <assert.h> or of this header) changes the definition of assert.
C5_ImmutableAfterGate ==
    [][\A u \in units :
          (ACCELERATE_CUDA_ASSERT_H[u] /\ (IncludeAssertH(u) \/ IncludeHeader(u)))
              => assert'[u] = assert[u]]_vars

\* C5 as amended: once the header has been processed its decision never
\* changes, and the definition of assert changes only when a later line
\* outside this header redefines it (#include <assert.h>, which makes it the
\* native one, or #define / #undef); a re-include of this header, a use and a
\* runtime step leave it as it is, so a re-include does not restore the
\* selection either.
C5_ChangedOnlyByRedefinition ==
    [][\A u \in units : ACCELERATE_CUDA_ASSERT_H[u] =>
          /\ decision'[u] = decision[u]
          /\ ACCELERATE_CUDA_ASSERT_H'[u]
          /\ IncludeAssertH(u) => assert'[u] = "native"
          /\ assert'[u] # assert[u] =>
                /\ IncludeAssertH(u) \/ DefineAssert(u) \/ UndefAssert(u)
                /\ origin'[u] = "later"]_vars

C5_Witness ==
    \E u \in units :
        /\ LowDevice(u)
        /\ decision[u] = "noop"
        /\ includes[u] >= 2
        /\ origin[u] = "later"
        /\ assert[u] = "native"
        /\ Len(prog[u]) = 2
        /\ prog[u][1].sel = "gate"
        /\ prog[u][1].code = << >>
        /\ prog[u][2].sel = "later"
        /\ prog[u][2].code # << >>

\* C6: an inclusion of the header after the first changes nothing but the
\* count of inclusions: not the definition of assert, not the decision, not
\* the number of times the gate was evaluated.
C6_ReincludeIsNoop ==
    [][\A u \in units : (includes[u] >= 1 /\ HeaderStep(u)) =>
          /\ assert'[u] = assert[u]
          /\ origin'[u] = origin[u]
          /\ decision'[u] = decision[u]
          /\ gateEvals'[u] = gateEvals[u]
          /\ ACCELERATE_CUDA_ASSERT_H'[u] = ACCELERATE_CUDA_ASSERT_H[u]
          /\ UNCHANGED <<status, prog, runtime>>]_vars

C6_Witness ==
    \E u \in units :
        /\ includes[u] >= 2
        /\ origin[u] = "later"
        /\ assert[u] = "user"
        /\ gateEvals[u] = 1

\* C7: two units that agree on (device pass, capability) get the same
\* decision, whatever their runtime-compilation flags and their definitions
\* of assert are, and a unit evaluates the gate once: exactly when it first
\* includes the header.
C7_DecisionByTarget ==
    \A u \in units :
        /\ gateEvals[u] = (IF includes[u] >= 1 THEN 1 ELSE 0)
        /\ decision[u] # "none" <=> includes[u] >= 1
        /\ \A v \in units :
              ( /\ device[u] = device[v]
                /\ capability[u] = capability[v]
                /\ decision[u] # "none"
                /\ decision[v] # "none" ) => decision[u] = decision[v]

C7_Witness ==
    \E u, v \in units :
        /\ device[u] /\ device[v]
        /\ capability[u] = capability[v]
        /\ capability[u] < Threshold
        /\ CUDACC_RTC[u] /\ ~CUDACC_RTC[v]
        /\ includes[u] = 2 /\ includes[v] = 1
        /\ assert[u] = "user" /\ assert[v] = "noop"
        /\ decision[u] = "noop" /\ decision[v] = "noop"

\* C8: in a device-side pass below 2.0 a use under the header's selection
\* never evaluates its condition: the variable x holds exactly the writes of
\* the executed lines that were expanded outside the selection.
C8_ArgumentNotEvaluated ==
    \A u \in units : LowDevice(u) =>
        x[u] = Cardinality({i \in Executed(u) \ GateLines(u) :
                               CondWrites(prog[u][i].cond)})

C8_Witness ==
    \E u \in units :
        /\ LowDevice(u)
        /\ status[u] = "finished"
        /\ GateLines(u) = {1, 2}
        /\ prog[u][1].cond = "effect"
        /\ prog[u][2].cond = "effect"
        /\ x[u] = 0

\* C9: the first inclusion in a device-side pass below 2.0 leaves assert
\* the empty macro whatever it was before (undefined, native or a user's),
\* also when the header itself has just included <assert.h>.
C9_OverrideWinsOnFirstInclude ==
    [][\A u \in units :
          (LowDevice(u) /\ includes[u] = 0 /\ HeaderStep(u)) =>
              /\ assert'[u] = "noop"
              /\ origin'[u] = "gate"
              /\ decision'[u] = "noop"]_vars

C9_Witness ==
    \E u \in units :
        /\ LowDevice(u)
        /\ ~CUDACC_RTC[u]
        /\ includes[u] = 1
        /\ origin[u] = "gate"
        /\ assert[u] = "noop"
        /\ Len(prog[u]) = 1
        /\ prog[u][1].sel = "prior"
        /\ prog[u][1].code # << >>

\* C10: the runtime-compilation flag does not enter the decision, and with
\* the flag set, in a pass that is not a device-side pass below 2.0, an
\* inclusion of the header leaves the definition of assert as it was, an
\* undefined assert included.
C10_RtcLeavesAssertAlone ==
    [][\A u \in units : HeaderStep(u) =>
          /\ includes[u] = 0 =>
                decision'[u] = (IF LowDevice(u) THEN "noop" ELSE "intact")
          /\ (CUDACC_RTC[u] /\ ~LowDevice(u)) => assert'[u] = assert[u]]_vars

C10_Witness ==
    \E u \in units :
        /\ CUDACC_RTC[u]
        /\ ~LowDevice(u)
        /\ includes[u] >= 1
        /\ decision[u] = "intact"
        /\ origin[u] = "gate"
        /\ assert[u] = "undefined"
        /\ status[u] = "failed"

====
